---- MODULE Spec2Model ----
(***************************************************************************)
(* A model of package sumtype (sumtype.Caster, Cast) together with the     *)
(* shape sum type of example_sumtypes_test.go that the package's tests     *)
(* exercise.                                                               *)
(*                                                                         *)
(* A record is a Go struct whose first field is the zero-size caster and   *)
(* whose other fields are pointers.  Pointers point into a heap of cells;  *)
(* Go compares pointers only for equality, so the cells of one field are   *)
(* numbered, and a cell no record points to is reclaimed (the garbage      *)
(* collector).  A view is a typed pointer to a record.                     *)
(***************************************************************************)
EXTENDS Integers, Sequences, FiniteSets, TLC

VARIABLES
    mem,      \* the records' storage and the heap their pointers point into
    views,    \* the typed pointers (views) the program holds
    last,     \* the outcome of the last call
    running,  \* FALSE once an unrecovered panic has ended the process
    vcall,    \* the ValidateStructFields call: its arguments and its outcome
    switching \* the SetCircle or SetRectangle call a second goroutine is in

vars == <<mem, views, last, running, vcall, switching>>

-----------------------------------------------------------------------------
(* Go types of the fixture: example_sumtypes_test.go                        *)

CircleShapeKind == "circle"
RectangleShapeKind == "rectangle"

\* reflect.StructField: Name, PkgPath ("" for an exported field), Type, and
\* the json tag (the key and the omitempty option; <<>> when there is none).
Field(name, pkgPath, type, tag) ==
    [Name |-> name, PkgPath |-> pkgPath, Type |-> type, Tag |-> tag]

TestPkg == "sumtype_test"
NoTag == <<>>
OmitEmpty(key) == <<key, "omitempty">>

\* reflect.StructField.IsExported
IsExported(f) == f.PkgPath = ""

\* A blank field and the embedded, unexported caster are not exported.
Blank(type) == Field("_", TestPkg, type, NoTag)
CasterField == Field("shapeCaster", TestPkg, "shapeCaster", NoTag)

shapeT == [Name |-> "shape", Kind |-> "struct", Fields |-> <<
    CasterField,
    Field("Color", "", "*string", OmitEmpty("color")),
    Field("Kind", "", "*ShapeKind", OmitEmpty("kind")),
    Field("Radius", "", "*int", OmitEmpty("radius")),
    Field("Width", "", "*int", OmitEmpty("width")),
    Field("Height", "", "*int", OmitEmpty("height")) >>]

ShapeT == [Name |-> "Shape", Kind |-> "struct", Fields |-> <<
    CasterField,
    Field("Color", "", "*string", NoTag),
    Field("Kind", "", "*ShapeKind", NoTag),
    Blank("*int"), Blank("*int"), Blank("*int") >>]

CircleShapeT == [Name |-> "CircleShape", Kind |-> "struct", Fields |-> <<
    CasterField,
    Field("Color", "", "*string", NoTag),
    Field("Kind", "", "*ShapeKind", NoTag),
    Field("Radius", "", "*int", NoTag),
    Blank("*int"), Blank("*int") >>]

RectangleShapeT == [Name |-> "RectangleShape", Kind |-> "struct", Fields |-> <<
    CasterField,
    Field("Color", "", "*string", NoTag),
    Field("Kind", "", "*ShapeKind", NoTag),
    Blank("*int"),
    Field("Width", "", "*int", NoTag),
    Field("Height", "", "*int", NoTag) >>]

\* reflect.Type.NumField
NumField(t) == Len(t.Fields)

ViewTypes == {shapeT, ShapeT, CircleShapeT, RectangleShapeT}
VariantTypes == {CircleShapeT, RectangleShapeT}

\* The position (from 1) of the canonical field with a Go name.
Pos(name) == CHOOSE i \in 1..NumField(shapeT) : shapeT.Fields[i].Name = name

ColorPos == Pos("Color")
KindPos == Pos("Kind")
RadiusPos == Pos("Radius")
WidthPos == Pos("Width")
HeightPos == Pos("Height")

\* The positions that hold data: all but the caster.
DataPos == 2..NumField(shapeT)

\* The positions a view type gives access to, and the variant-specific ones.
OwnedOf == [t \in ViewTypes |-> {i \in DataPos : IsExported(t.Fields[i])}]
Owned(t) == OwnedOf[t]
Shared == Owned(ShapeT)
Specific == DataPos \ Shared

\* The variant a tag names (ensureKind's callers), and a variant's tag.
TagOf(t) == IF t = CircleShapeT THEN CircleShapeKind ELSE RectangleShapeKind

-----------------------------------------------------------------------------
(* Values the program and the wire supply                                   *)

Colors == {"", "red"}
Kinds == {CircleShapeKind, RectangleShapeKind, "triangle"}
RadiusVals == {1}
WidthVals == {10}
HeightVals == {20}

GoVals(i) ==
    CASE i = ColorPos -> Colors
      [] i = KindPos -> Kinds
      [] i = RadiusPos -> RadiusVals
      [] i = WidthPos -> WidthVals
      [] i = HeightPos -> HeightVals

-----------------------------------------------------------------------------
(* Memory                                                                   *)

RecIds == {"R1", "R2"}
CellIds == 1..Cardinality(RecIds)

Nil == <<>>        \* the nil pointer
Ptr(k) == <<k>>    \* a pointer to cell k of its field
Free == <<>>       \* a cell that is not allocated
Cell(x) == <<x>>   \* a cell that holds x

ZeroRec == [i \in 1..NumField(shapeT) |-> Nil]

ZeroMem == [recs |-> [r \in RecIds |-> ZeroRec],
            heap |-> [i \in DataPos |-> [k \in CellIds |-> Free]]]

Referenced(recs, i) == {recs[r][i][1] : r \in {q \in RecIds : recs[q][i] # Nil}}

\* field = nil; a cell no record points to any more is free (the garbage
\* collector).
AssignNil(m, r, i) ==
    LET recs1 == [m.recs EXCEPT ![r][i] = Nil] IN
    [recs |-> recs1,
     heap |-> [m.heap EXCEPT ![i] = [k \in CellIds |->
                  IF k \in Referenced(recs1, i) THEN m.heap[i][k] ELSE Free]]]

\* field = ptr(x): a new cell
AssignNew(m, r, i, x) ==
    LET m1 == AssignNil(m, r, i)
        k == CHOOSE c \in CellIds :
                 /\ m1.heap[i][c] = Free
                 /\ \A d \in CellIds : m1.heap[i][d] = Free => c <= d
    IN  [m1 EXCEPT !.recs[r][i] = Ptr(k), !.heap[i][k] = Cell(x)]

\* *field = x, for a field that is not nil
Store(m, r, i, x) == [m EXCEPT !.heap[i][m.recs[r][i][1]] = Cell(x)]

\* What a field holds: Nil, or the cell its pointer points to.
Load(m, r, i) == IF m.recs[r][i] = Nil THEN Nil ELSE m.heap[i][m.recs[r][i][1]]

\* The values of a record's fields, by position.
Value(m, r) == [i \in DataPos |-> Load(m, r, i)]

-----------------------------------------------------------------------------
(* package sumtype: Cast, Caster.Json, Caster.ZeroNonKindFields             *)

\* A view is a typed pointer: the record it points to and its Go type.
TypeNamed == [n \in {t.Name : t \in ViewTypes} |-> CHOOSE t \in ViewTypes : t.Name = n]
TypeOf(v) == TypeNamed[v.typ]

\* A cast that copies: the pointer it returns is to other storage.
CastCopy(To, caster) ==
    [rec |-> CHOOSE r \in RecIds : r # caster.rec, typ |-> To.Name]

\* Cast[To](caster): the same address, retyped.
Cast(To, caster) == [rec |-> caster.rec, typ |-> To.Name]

\* shapeCaster.caster(): the pointer as a *sumtype.Caster[shape].
caster(c) == [rec |-> c.rec, typ |-> "Caster[shape]"]

\* Caster.Json(): the pointer as a *shape.
Json(c) == Cast(shapeT, c)

\* A Json struct none of whose fields can be set.
CanSetNever(i) == FALSE

\* reflect.Value.CanSet of field i of the addressable struct *Json
CanSet(i) == IsExported(shapeT.Fields[i])

\* Caster.ZeroNonKindFields(ptrToKindStruct): the fields the kind struct does
\* not export are set to their zero value in the Json struct.
RECURSIVE ZeroFrom(_, _, _, _)
ZeroFrom(m, r, kindFields, f) ==
    IF f > NumField(kindFields) THEN m
    ELSE IF ~IsExported(kindFields.Fields[f]) /\ CanSet(f)
         THEN ZeroFrom(AssignNil(m, r, f), r, kindFields, f + 1)
         ELSE ZeroFrom(m, r, kindFields, f + 1)

\* A scrub that clears nothing.
ZeroNothing(m, c, ptrToKindStruct) == m

ZeroNonKindFields(m, c, ptrToKindStruct) ==
    ZeroFrom(m, Json(c).rec, TypeOf(ptrToKindStruct), 1)

-----------------------------------------------------------------------------
(* shapeCaster: ensureKind, Shape, Circle, Rectangle, SetCircle,            *)
(* SetRectangle                                                             *)

NoPanic == <<>>
NilDereference == <<"runtime error: invalid memory address or nil pointer dereference">>

\* fmt.Sprintf("can't cast shape from Kind=%v to Kind=%s", from, to)
CantCast(from, to) == <<"can't cast shape from Kind=", from, " to Kind=", to>>

\* A guard that lets every record through.
ensureKindNever(m, c, kind) == NoPanic

\* A guard that checks only that the discriminator is set.
ensureKindSetOnly(m, c, kind) ==
    IF m.recs[Json(c).rec][KindPos] = Nil THEN CantCast("nil", kind) ELSE NoPanic

\* ensureKind(kind): the panic it raises, or NoPanic.
ensureKind(m, c, kind) ==
    LET k == KindPos IN
    IF m.recs[Json(c).rec][k] = Nil THEN CantCast("nil", kind)
    ELSE IF Load(m, Json(c).rec, k) # Cell(kind)
         THEN CantCast(Load(m, Json(c).rec, k)[1], kind)
         ELSE NoPanic

\* The result of a call: the memory it leaves, the panic it raised (or
\* NoPanic) and the pointer it returned (Nil after a panic).
Returned(m, v) == [mem |-> m, panic |-> NoPanic, view |-> v]
Panicked(m, p) == [mem |-> m, panic |-> p, view |-> Nil]

ShapeOp(c) == Cast(ShapeT, caster(c))

GuardedCast(m, c, To) ==
    IF ensureKind(m, c, TagOf(To)) # NoPanic
    THEN Panicked(m, ensureKind(m, c, TagOf(To)))
    ELSE Returned(m, Cast(To, caster(c)))

CircleOp(m, c) == GuardedCast(m, c, CircleShapeT)
RectangleOp(m, c) == GuardedCast(m, c, RectangleShapeT)

\* s := c.Shape(); *s.Kind = kind; c.caster().ZeroNonKindFields(s); return s.X()
SetKind(m, c, To) ==
    LET s == ShapeOp(c)
        k == KindPos
    IN  IF m.recs[s.rec][k] = Nil THEN Panicked(m, NilDereference)
        ELSE LET m1 == Store(m, s.rec, k, TagOf(To))
                 m2 == ZeroNonKindFields(m1, caster(c), s)
             IN  GuardedCast(m2, s, To)

SetCircleOp(m, c) == SetKind(m, c, CircleShapeT)
SetRectangleOp(m, c) == SetKind(m, c, RectangleShapeT)

\* A switch that takes every kind it does not know for a circle.
SwitchOnKindNoDefault(m, c) ==
    LET s == ShapeOp(c) IN
    IF m.recs[s.rec][KindPos] = Nil THEN Panicked(m, NilDereference)
    ELSE IF Load(m, s.rec, KindPos) = Cell(RectangleShapeKind) THEN RectangleOp(m, s)
         ELSE CircleOp(m, s)

\* switch *s.Kind { case CircleShapeKind: s.Circle() ... case
\* RectangleShapeKind: s.Rectangle() ... default: ... }: the client's switch
\* over the kinds it knows; the default branch casts nothing.
SwitchOnKindOp(m, c) ==
    LET s == ShapeOp(c) IN
    IF m.recs[s.rec][KindPos] = Nil THEN Panicked(m, NilDereference)
    ELSE IF Load(m, s.rec, KindPos) = Cell(CircleShapeKind) THEN CircleOp(m, s)
    ELSE IF Load(m, s.rec, KindPos) = Cell(RectangleShapeKind) THEN RectangleOp(m, s)
    ELSE Returned(m, Nil)

-----------------------------------------------------------------------------
(* encoding/json/v2 on the canonical struct: json.Marshal, json.Unmarshal   *)

JString(x) == [t |-> "string", v |-> x]
JNumber(n) == [t |-> "number", v |-> n]
JNull == [t |-> "null", v |-> "null"]

\* The JSON value of a pointer field: null for nil, else the pointee's value.
MarshalValue(type, cell) ==
    IF cell = Nil THEN JNull
    ELSE IF type = "*int" THEN JNumber(cell[1]) ELSE JString(cell[1])

\* An omitempty that omits the empty string only.
IsEmptyJSONStringOnly(j) == j.t = "string" /\ j.v = ""

\* v2's omitempty: a member is omitted when its value encodes as a JSON
\* null or as an empty string (or an empty object or array: none here).
IsEmptyJSON(j) == j.t = "null" \/ (j.t = "string" /\ j.v = "")

\* A tag whose omitempty option is not honoured.
HasOmitEmptyNever(f) == FALSE

HasOmitEmpty(f) == Len(f.Tag) = 2 /\ f.Tag[2] = "omitempty"

\* json.Marshal(*shape): the members in the order of the struct's fields.
RECURSIVE MarshalFrom(_, _, _)
MarshalFrom(m, rec, i) ==
    IF i > NumField(shapeT) THEN <<>>
    ELSE LET f == shapeT.Fields[i]
             cell == IF rec[i] = Nil THEN Nil ELSE m.heap[i][rec[i][1]]
             j == MarshalValue(f.Type, cell)
         IN  IF f.Tag = NoTag \/ (HasOmitEmpty(f) /\ IsEmptyJSON(j))
             THEN MarshalFrom(m, rec, i + 1)
             ELSE <<(<<f.Tag[1], j>>)>> \o MarshalFrom(m, rec, i + 1)

\* Caster.MarshalJSON: json.Marshal(c.Json())
MarshalJSON(m, c) == MarshalFrom(m, m.recs[Json(c).rec], 1)

\* The struct field a member's name selects: the position, or 0.
Tagged == {i \in DataPos : shapeT.Fields[i].Tag # NoTag}
KeyPos == [key \in {shapeT.Fields[i].Tag[1] : i \in Tagged} |->
              CHOOSE i \in Tagged : shapeT.Fields[i].Tag[1] = key]
FieldOfKey(key) == IF key \in DOMAIN KeyPos THEN KeyPos[key] ELSE 0

\* Whether a JSON value can be stored in a field of a Go pointer type.
Fits(type, j) ==
    \/ j.t = "null"
    \/ j.t = "string" /\ type \in {"*string", "*ShapeKind"}
    \/ j.t = "number" /\ type = "*int"

NoError == <<>>
SemanticError(key) == <<"json: cannot unmarshal into Go struct field", key>>
DuplicateName(key) == <<"json: duplicate object member name", key>>
SyntacticError == <<"json: invalid JSON syntax">>

\* One member stored: null sets the pointer to nil; a value is stored in the
\* cell the pointer points to, a new one when the pointer is nil.
UnmarshalMember(m, r, i, j) ==
    IF j.t = "null" THEN AssignNil(m, r, i)
    ELSE IF m.recs[r][i] = Nil THEN AssignNew(m, r, i, j.v)
         ELSE Store(m, r, i, j.v)

\* json.Unmarshal(data, *shape): the members are stored one by one, in the
\* order of the text; an error ends the call where it is met.  A member of the
\* text is <<name, value>>; <<"", SyntaxJunk>> stands for text that is no JSON.
SyntaxJunk == [t |-> "junk", v |-> "junk"]

RECURSIVE UnmarshalFrom(_, _, _, _)
UnmarshalFrom(m, r, text, n) ==
    IF n > Len(text) THEN [mem |-> m, err |-> NoError]
    ELSE LET key == text[n][1]
             j == text[n][2]
             i == FieldOfKey(key)
         IN  IF j = SyntaxJunk THEN [mem |-> m, err |-> SyntacticError]
             ELSE IF \E p \in 1..(n - 1) : text[p][1] = key
                  THEN [mem |-> m, err |-> DuplicateName(key)]
             ELSE IF i = 0 THEN UnmarshalFrom(m, r, text, n + 1)
             ELSE IF ~Fits(shapeT.Fields[i].Type, j)
                  THEN [mem |-> m, err |-> SemanticError(key)]
             ELSE UnmarshalFrom(UnmarshalMember(m, r, i, j), r, text, n + 1)

\* A decode that would clear the variants' own fields before it stores the
\* members of the text.
UnmarshalJSONScrubbed(m, c, data) ==
    LET r == Json(c).rec
        m1 == AssignNil(AssignNil(AssignNil(m, r, RadiusPos), r, WidthPos), r, HeightPos)
    IN  UnmarshalFrom(m1, r, data, 1)

\* Caster.UnmarshalJSON: json.Unmarshal(data, c.Json())
UnmarshalJSON(m, c, data) == UnmarshalFrom(m, Json(c).rec, data, 1)

-----------------------------------------------------------------------------
(* Caster.ValidateStructFields, Caster.validateStructFields                 *)

\* Types the fixture does not declare, on which the validator is tried.
\* A canonical struct whose first field is a plain struct{}:
plainT == [Name |-> "plain", Kind |-> "struct", Fields |-> <<
    Field("marker", TestPkg, "struct{}", NoTag),
    Field("Color", "", "*string", OmitEmpty("color")),
    Field("Kind", "", "*ShapeKind", OmitEmpty("kind")),
    Field("Radius", "", "*int", OmitEmpty("radius")),
    Field("Width", "", "*int", OmitEmpty("width")),
    Field("Height", "", "*int", OmitEmpty("height")) >>]

\* A canonical struct that has no caster:
noCasterT == [Name |-> "noCaster", Kind |-> "struct", Fields |-> <<
    Field("Color", "", "*string", OmitEmpty("color")),
    Field("Kind", "", "*ShapeKind", OmitEmpty("kind")),
    Field("Radius", "", "*int", OmitEmpty("radius")) >>]

\* A canonical struct that has no field:
emptyT == [Name |-> "empty", Kind |-> "struct", Fields |-> <<>>]

\* Variants: Color and Kind in the wrong order,
SwappedShapeT == [Name |-> "SwappedShape", Kind |-> "struct", Fields |-> <<
    CasterField,
    Field("Kind", "", "*ShapeKind", NoTag),
    Field("Color", "", "*string", NoTag),
    Field("Radius", "", "*int", NoTag),
    Blank("*int"), Blank("*int") >>]

\* a radius of another type,
MistypedShapeT == [Name |-> "MistypedShape", Kind |-> "struct", Fields |-> <<
    CasterField,
    Field("Color", "", "*string", NoTag),
    Field("Kind", "", "*ShapeKind", NoTag),
    Field("Radius", "", "*float64", NoTag),
    Blank("*int"), Blank("*int") >>]

\* a field too few (and Color and Kind in the wrong order),
ShortShapeT == [Name |-> "ShortShape", Kind |-> "struct", Fields |-> <<
    CasterField,
    Field("Kind", "", "*ShapeKind", NoTag),
    Field("Color", "", "*string", NoTag),
    Field("Radius", "", "*int", NoTag),
    Blank("*int") >>]

\* a plain struct{} for the caster,
PlainShapeT == [Name |-> "PlainShape", Kind |-> "struct", Fields |-> <<
    Field("marker", TestPkg, "struct{}", NoTag),
    Field("Color", "", "*string", NoTag),
    Field("Kind", "", "*ShapeKind", NoTag),
    Blank("*int"), Blank("*int"), Blank("*int") >>]

\* other names and no exported field,
HiddenShapeT == [Name |-> "HiddenShape", Kind |-> "struct", Fields |-> <<
    CasterField,
    Field("tint", TestPkg, "*string", NoTag),
    Field("tag", TestPkg, "*ShapeKind", NoTag),
    Blank("*int"), Blank("*int"), Blank("*int") >>]

\* and a pointer to a struct, passed where the struct is expected.
PtrShapeT == [Name |-> "", Kind |-> "ptr", Fields |-> <<>>]

JsonTypes == {shapeT, plainT, noCasterT, emptyT}
StructPool == {ShapeT, CircleShapeT, RectangleShapeT, SwappedShapeT, MistypedShapeT,
               ShortShapeT, PlainShapeT, HiddenShapeT, PtrShapeT}

\* reflect.TypeOf(c) for c of type Caster[Json]
CasterName == [n \in {t.Name : t \in JsonTypes} |->
    CASE n = "shape" -> "sumtype.Caster[shape]"
      [] n = "plain" -> "sumtype.Caster[plain]"
      [] n = "noCaster" -> "sumtype.Caster[noCaster]"
      [] n = "empty" -> "sumtype.Caster[empty]"]
CasterType(jsonT) == CasterName[jsonT.Name]

\* The underlying type of a type: that of its declaration.
Underlying(type) ==
    IF type \in {"shapeCaster", "struct{}"} \cup {CasterName[n] : n \in DOMAIN CasterName}
    THEN "struct{}" ELSE type

Numeric == {"int", "float64"}

\* A conversion check that accepts every pair of types.
ConvertibleAlways(T, U) == TRUE

\* reflect.Type.ConvertibleTo: identical underlying types, or two numeric types.
ConvertibleTo(T, U) == Underlying(T) = Underlying(U) \/ (T \in Numeric /\ U \in Numeric)

\* The error values of fmt.Errorf, by their format and arguments.
FirstFieldError(mainStruct, c) ==
    <<"first field of struct %s must be a type whose underlying type is %T",
      mainStruct.Name, c>>
NumFieldError(mainStruct, otherStruct) ==
    <<"structs have different number of fields: %s=%d vs %s=%d",
      mainStruct.Name, NumField(mainStruct), otherStruct.Name, NumField(otherStruct)>>
FieldError(f, mainStruct, otherStruct) ==
    <<"structs have incompatible field #%d: %s.%s (%s) vs %s.%s (%s)", f - 1,
      mainStruct.Name, mainStruct.Fields[f].Name, mainStruct.Fields[f].Type,
      otherStruct.Name, otherStruct.Fields[f].Name, otherStruct.Fields[f].Type>>

ReflectPanic(what) == <<"reflect: panic", what>>

\* What validateStructFields does: it returns err (NoError for nil), or a call
\* of package reflect panics.
Result(err, panic) == [err |-> err, panic |-> panic]

\* A field loop that reports the last field that differs, not the first.
RECURSIVE CompareFieldsLast(_, _, _)
CompareFieldsLast(mainStruct, otherStruct, f) ==
    IF f > NumField(mainStruct) THEN NoError
    ELSE LET rest == CompareFieldsLast(mainStruct, otherStruct, f + 1) IN
         IF rest # NoError THEN rest
         ELSE IF mainStruct.Fields[f].Type # otherStruct.Fields[f].Type
              THEN FieldError(f, mainStruct, otherStruct)
              ELSE NoError

\* for f := range mainStruct.NumField()
RECURSIVE CompareFields(_, _, _)
CompareFields(mainStruct, otherStruct, f) ==
    IF f > NumField(mainStruct) THEN NoError
    ELSE IF mainStruct.Fields[f].Type # otherStruct.Fields[f].Type
         THEN FieldError(f, mainStruct, otherStruct)
         ELSE CompareFields(mainStruct, otherStruct, f + 1)

\* for _, otherStruct := range structs
RECURSIVE CompareStructs(_, _, _)
CompareStructs(mainStruct, structs, n) ==
    IF n > Len(structs) THEN Result(NoError, NoPanic)
    ELSE LET otherStruct == structs[n] IN
         IF otherStruct.Kind # "struct"
         THEN Result(NoError, ReflectPanic("NumField of non-struct type"))
         ELSE IF NumField(mainStruct) # NumField(otherStruct)
              THEN Result(NumFieldError(mainStruct, otherStruct), NoPanic)
         ELSE IF CompareFields(mainStruct, otherStruct, 1) # NoError
              THEN Result(CompareFields(mainStruct, otherStruct, 1), NoPanic)
         ELSE CompareStructs(mainStruct, structs, n + 1)

validateStructFields(jsonT, structs) ==
    LET mainStruct == jsonT
        underlyingType == CasterType(jsonT)
    IN  IF NumField(mainStruct) = 0
        THEN Result(NoError, ReflectPanic("Field index out of bounds"))
        ELSE LET firstFieldType == mainStruct.Fields[1].Type IN
             IF ~ConvertibleTo(firstFieldType, underlyingType)
                    \/ ~ConvertibleTo(underlyingType, firstFieldType)
             THEN Result(FirstFieldError(mainStruct, underlyingType), NoPanic)
             ELSE CompareStructs(mainStruct, structs, 1)

\* ValidateStructFields(panicOnError, structs...): the call returns err, or
\* panics.
ValidateStructFieldsOp(jsonT, panicOnError, structs) ==
    LET res == validateStructFields(jsonT, structs) IN
    IF res.panic # NoPanic THEN [status |-> "panicked", err |-> NoError, panic |-> res.panic]
    ELSE IF panicOnError /\ res.err # NoError
         THEN [status |-> "panicked", err |-> NoError, panic |-> res.err]
         ELSE [status |-> "returned", err |-> res.err, panic |-> NoPanic]

-----------------------------------------------------------------------------
(* The texts the wire supplies                                              *)

Member(key, j) == <<key, j>>

\* Objects json.Unmarshal accepts: a circle, rectangles, a kind and a key the
\* program does not know, a circle that carries a rectangle's field, parts of
\* a record, the empty object, and nulls.
CircleText ==
    <<Member("kind", JString(CircleShapeKind)), Member("color", JString("red")),
      Member("radius", JNumber(1))>>

TriangleText ==
    <<Member("kind", JString("triangle")), Member("color", JString("red")),
      Member("sides", JNumber(3))>>

CircleWidthText ==
    <<Member("kind", JString(CircleShapeKind)), Member("width", JNumber(10))>>

GoodTexts ==
    {CircleText, TriangleText,
     <<Member("kind", JString(RectangleShapeKind)), Member("color", JString("red")),
       Member("width", JNumber(10)), Member("height", JNumber(20))>>,
     <<Member("color", JString("")), Member("kind", JString(RectangleShapeKind)),
       Member("width", JNumber(10))>>,
     CircleWidthText,
     <<Member("radius", JNumber(1))>>,
     <<Member("color", JString("red"))>>,
     <<>>,
     <<Member("kind", JNull)>>,
     <<Member("color", JNull), Member("radius", JNull)>>}

\* Texts json.Unmarshal rejects: a value of the wrong type, text that is cut
\* short, a name that occurs twice.
BadTexts ==
    {<<Member("kind", JString(CircleShapeKind)), Member("radius", JString("big"))>>,
     <<Member("color", JString("red")), Member("", SyntaxJunk)>>,
     <<Member("kind", JString(RectangleShapeKind)), Member("kind", JString(CircleShapeKind))>>}

Texts == GoodTexts \cup BadTexts

-----------------------------------------------------------------------------
(* The program: the calls a client of the shape types makes                 *)

\* What the program knows of its last call: the operation, the record it was
\* made on, how it ended, the view, text or error it returned (for a decode
\* the text it was given, for a write the field and the value written), and
\* the values the record's fields had when a method was called.
Outcome(op, r, status, panic, view, data, err, before) ==
    [op |-> op, rec |-> r, status |-> status, panic |-> panic, view |-> view,
     data |-> data, err |-> err, before |-> before]

NoView == <<>>
NoData == <<>>
NotKept == <<>>

\* The view a call returned joins the views the program holds; it remembers
\* the record of the view it was made from.
Held(v, from) == [rec |-> v.rec, typ |-> v.typ, origin |-> from.origin]

\* The values a composite literal of type t can give the fields t exports.
LiteralVals(t, i) ==
    {Nil} \cup (IF i \in Owned(t) THEN {Cell(x) : x \in GoVals(i)} ELSE {})

Literals(t) ==
    {[i \in DataPos |->
        CASE i = ColorPos -> c [] i = KindPos -> k [] i = RadiusPos -> r
          [] i = WidthPos -> w [] i = HeightPos -> h] :
        c \in LiteralVals(t, ColorPos), k \in LiteralVals(t, KindPos),
        r \in LiteralVals(t, RadiusPos), w \in LiteralVals(t, WidthPos),
        h \in LiteralVals(t, HeightPos)}

RECURSIVE Populate(_, _, _, _)
Populate(m, r, lit, i) ==
    IF i > NumField(shapeT) THEN m
    ELSE IF lit[i] = Nil THEN Populate(m, r, lit, i + 1)
         ELSE Populate(AssignNew(m, r, i, lit[i][1]), r, lit, i + 1)

FirstRec == "R1"

\* &T{Field: ptr(x), ...}, or var s T: a new record, held through a view of
\* type T.
New(t, lit) ==
    /\ running
    /\ views = {}
    /\ mem' = Populate(mem, FirstRec, lit, 2)
    /\ views' = {[rec |-> FirstRec, typ |-> t.Name, origin |-> FirstRec]}
    /\ last' = Outcome("New", FirstRec, "returned", NoPanic, NoView, NoData, NoError, NotKept)
    /\ UNCHANGED <<running, vcall, switching>>

\* The receiver of a shapeCaster method called on a view: the address of the
\* view's embedded first field, which is the record's own address.
Receiver(v) == [rec |-> v.rec, typ |-> "shapeCaster", origin |-> v.origin]
Receivers == {Receiver(v) : v \in views}

\* The fields of record r the program can name: those a held view exports.
Writable(r) == UNION {Owned(TypeOf(v)) : v \in {w \in views : w.rec = r}}

\* A call that returns or panics; a panic the caller does not recover ends
\* the process.
Call(op, c, res, recovers) ==
    /\ mem' = res.mem
    /\ views' = IF res.panic = NoPanic /\ res.view # Nil
                THEN views \cup {Held(res.view, c)} ELSE views
    /\ last' = Outcome(op, c.rec, IF res.panic = NoPanic THEN "returned" ELSE "panicked",
                       res.panic, IF res.view = Nil THEN NoView ELSE Held(res.view, c),
                       NoData, NoError, Value(mem, c.rec))
    /\ res.panic = NoPanic => recovers
    /\ running' = recovers
    /\ UNCHANGED <<vcall, switching>>

Shape(c) == running /\ Call("Shape", c, Returned(mem, ShapeOp(c)), TRUE)

json(c) == running /\ Call("json", c, Returned(mem, Json(caster(c))), TRUE)

Circle(c, recovers) == running /\ Call("Circle", c, CircleOp(mem, c), recovers)

Rectangle(c, recovers) == running /\ Call("Rectangle", c, RectangleOp(mem, c), recovers)

SetCircle(c, recovers) == running /\ Call("SetCircle", c, SetCircleOp(mem, c), recovers)

SetRectangle(c, recovers) ==
    running /\ Call("SetRectangle", c, SetRectangleOp(mem, c), recovers)

SwitchOnKind(c, recovers) ==
    running /\ Call("SwitchOnKind", c, SwitchOnKindOp(mem, c), recovers)

\* v.F = ptr(x) or v.F = nil, for a field F of record r that a held view exports
Assign(r, i, cell) ==
    /\ running
    /\ i \in Writable(r)
    /\ mem' = IF cell = Nil THEN AssignNil(mem, r, i) ELSE AssignNew(mem, r, i, cell[1])
    /\ last' = Outcome("Assign", r, "returned", NoPanic, NoView, <<i, cell>>, NoError, NotKept)
    /\ UNCHANGED <<views, running, vcall, switching>>

\* *v.F = x, for a field F that is not nil
StoreThrough(r, i, x) ==
    /\ running
    /\ i \in Writable(r)
    /\ mem.recs[r][i] # Nil
    /\ mem' = Store(mem, r, i, x)
    /\ last' = Outcome("Store", r, "returned", NoPanic, NoView, <<i, Cell(x)>>, NoError, NotKept)
    /\ UNCHANGED <<views, running, vcall, switching>>

\* An encoding of the struct the view is of: only the fields its type exports.
MarshalViewOwnFields(m, v) ==
    SelectSeq(MarshalJSON(m, caster(v)),
              LAMBDA mb : FieldOfKey(mb[1]) \in Owned(TypeOf(v)))

\* func (s Shape) MarshalJSON() { return (&s).caster().MarshalJSON() }, and
\* the same for CircleShape and RectangleShape: s is a copy of the struct
\* with the same pointers.  A *shape has no MarshalJSON: it is encoded as the
\* struct it is.
MarshalView(m, v) == MarshalJSON(m, caster(v))

\* json.Marshal(v)
Marshal(v) ==
    /\ running
    /\ last' = Outcome("Marshal", v.rec, "returned", NoPanic, v,
                       MarshalView(mem, v), NoError, NotKept)
    /\ UNCHANGED <<mem, views, running, vcall, switching>>

\* json.Unmarshal(data, v): v's UnmarshalJSON, or the struct itself for a *shape
Unmarshal(c, data) ==
    /\ running
    /\ LET res == UnmarshalJSON(mem, caster(c), data) IN
        /\ mem' = res.mem
        /\ last' = Outcome("Unmarshal", c.rec, "returned", NoPanic, NoView, data, res.err,
                             Value(mem, c.rec))
    /\ UNCHANGED <<views, running, vcall, switching>>

\* No SetCircle or SetRectangle call is under way in a second goroutine.
NotSwitching == [pc |-> "idle"]

\* A call of ValidateStructFields: its arguments, and its outcome once made.
VCall(jsonT, panicOnError, structs, done, res) ==
    [Json |-> jsonT, panicOnError |-> panicOnError, structs |-> structs,
     done |-> done, res |-> res]

NotCalled == [status |-> "none", err |-> NoError, panic |-> NoPanic]

\* var _ = sumtype.Caster[shape]{}.ValidateStructFields(true, Shape{}, CircleShape{},
\* RectangleShape{}): the call made when the package is initialized.
InitStructs == <<ShapeT, CircleShapeT, RectangleShapeT>>
InitCall ==
    VCall(shapeT, TRUE, InitStructs, TRUE, ValidateStructFieldsOp(shapeT, TRUE, InitStructs))

\* The state once the package is initialized: no record yet.
Init ==
    /\ mem = ZeroMem
    /\ views = {}
    /\ last = Outcome("init", FirstRec, "returned", NoPanic, NoView, NoData, NoError, NotKept)
    /\ vcall = InitCall
    /\ running = (vcall.res.status = "returned")
    /\ switching = NotSwitching

Next ==
    \/ \E t \in ViewTypes : \E lit \in Literals(t) : New(t, lit)
    \/ \E c \in Receivers : Shape(c)
    \/ \E c \in Receivers : json(c)
    \/ \E c \in Receivers, recovers \in BOOLEAN : Circle(c, recovers)
    \/ \E c \in Receivers, recovers \in BOOLEAN : Rectangle(c, recovers)
    \/ \E c \in Receivers, recovers \in BOOLEAN : SetCircle(c, recovers)
    \/ \E c \in Receivers, recovers \in BOOLEAN : SetRectangle(c, recovers)
    \/ \E c \in Receivers, recovers \in BOOLEAN : SwitchOnKind(c, recovers)
    \/ \E c \in Receivers, i \in DataPos : \E cell \in LiteralVals(shapeT, i) :
           Assign(c.rec, i, cell)
    \/ \E c \in Receivers, i \in DataPos : \E x \in GoVals(i) : StoreThrough(c.rec, i, x)
    \/ \E v \in views : Marshal(v)
    \/ \E c \in Receivers, data \in Texts : Unmarshal(c, data)

Spec == Init /\ [][Next]_vars

-----------------------------------------------------------------------------
(* Encode, then decode into a new record                                    *)

SecondRec == "R2"

\* var unmarshaled shape; json.Unmarshal(jsonData, &unmarshaled): the text
\* json.Marshal gave is decoded into a new, zero record.
UnmarshalFresh ==
    /\ running
    /\ last.op = "Marshal"
    /\ last.rec = FirstRec
    /\ \A v \in views : v.rec # SecondRec
    /\ LET unmarshaled == [rec |-> SecondRec, typ |-> shapeT.Name, origin |-> SecondRec]
           res == UnmarshalFrom(mem, unmarshaled.rec, last.data, 1)
       IN  /\ mem' = res.mem
           /\ views' = views \cup {unmarshaled}
           /\ last' = Outcome("UnmarshalFresh", SecondRec, "returned", NoPanic, NoView,
                              last.data, res.err, Value(mem, SecondRec))
    /\ UNCHANGED <<running, vcall, switching>>

NextRoundTrip ==
    \/ \E t \in ViewTypes : \E lit \in Literals(t) : New(t, lit)
    \/ \E v \in views : Marshal(v)
    \/ UnmarshalFresh

SpecRoundTrip == Init /\ [][NextRoundTrip]_vars

-----------------------------------------------------------------------------
(* The validator on its own: any canonical type and any list of structs     *)

MaxStructs == 2

StructLists == UNION {[1..n -> StructPool] : n \in 0..MaxStructs}

InitValidate ==
    /\ mem = ZeroMem
    /\ views = {}
    /\ last = Outcome("init", FirstRec, "returned", NoPanic, NoView, NoData, NoError, NotKept)
    /\ running = TRUE
    /\ switching = NotSwitching
    /\ \E jsonT \in JsonTypes, panicOnError \in BOOLEAN, structs \in StructLists :
           vcall = VCall(jsonT, panicOnError, structs, FALSE, NotCalled)

ValidateStructFields ==
    /\ running
    /\ ~vcall.done
    /\ vcall' = [vcall EXCEPT !.done = TRUE,
                   !.res = ValidateStructFieldsOp(vcall.Json, vcall.panicOnError, vcall.structs)]
    /\ running' = (vcall'.res.status = "returned")
    /\ UNCHANGED <<mem, views, last, switching>>

NextValidate == ValidateStructFields

SpecValidate == InitValidate /\ [][NextValidate]_vars


-----------------------------------------------------------------------------
(* SetCircle and SetRectangle step by step in one goroutine, while another  *)
(* goroutine reads the same record; neither takes a lock                    *)

SwitchName(To) == IF To = CircleShapeT THEN "SetCircle" ELSE "SetRectangle"
GuardName(To) == IF To = CircleShapeT THEN "Circle" ELSE "Rectangle"

\* ZeroNonKindFields done whole in the pass for its first field.
ZeroFieldsAtOnce(m, r, kindFields, f) ==
    IF f = 1 THEN ZeroFrom(m, r, kindFields, 1) ELSE m

\* One pass of the loop of ZeroNonKindFields, for field f.
ZeroField(m, r, kindFields, f) ==
    IF ~IsExported(kindFields.Fields[f]) /\ CanSet(f) THEN AssignNil(m, r, f) ELSE m

\* s := c.Shape(); *s.Kind = X: the first write of the call.  With a nil Kind
\* the store panics and nothing has been written.
StoreKind(c, To, recovers) ==
    /\ running
    /\ switching = NotSwitching
    /\ LET s == ShapeOp(c) IN
       IF mem.recs[s.rec][KindPos] = Nil
       THEN Call(SwitchName(To), c, Panicked(mem, NilDereference), recovers)
       ELSE /\ mem' = Store(mem, s.rec, KindPos, TagOf(To))
            /\ switching' = [pc |-> "scrub", c |-> c, to |-> To, f |-> 1,
                             before |-> Value(mem, c.rec)]
            /\ UNCHANGED <<views, last, running, vcall>>

\* c.caster().ZeroNonKindFields(s): the next pass of its loop
ZeroStep ==
    /\ running
    /\ switching.pc = "scrub"
    /\ switching.f <= NumField(ShapeT)
    /\ mem' = ZeroField(mem, Json(caster(switching.c)).rec, ShapeT, switching.f)
    /\ switching' = [switching EXCEPT !.f = @ + 1]
    /\ UNCHANGED <<views, last, running, vcall>>

\* return s.Circle(), once the loop has ended
ReturnView ==
    /\ running
    /\ switching.pc = "scrub"
    /\ switching.f > NumField(ShapeT)
    /\ LET c == switching.c
           res == GuardedCast(mem, ShapeOp(c), switching.to)
       IN  /\ views' = IF res.panic = NoPanic THEN views \cup {Held(res.view, c)} ELSE views
           /\ last' = Outcome(SwitchName(switching.to), c.rec,
                              IF res.panic = NoPanic THEN "returned" ELSE "panicked",
                              res.panic,
                              IF res.view = Nil THEN NoView ELSE Held(res.view, c),
                              NoData, NoError, switching.before)
           /\ running' = (res.panic = NoPanic)
    /\ switching' = NotSwitching
    /\ UNCHANGED <<mem, vcall>>

\* What a goroutine can read of record r without synchronization: at each
\* position the value in memory or, while a switch of r is under way, the
\* value the position held before the switch began.
Seen(r) ==
    IF switching.pc = "idle" THEN {Value(mem, r)}
    ELSE IF switching.c.rec # r THEN {Value(mem, r)}
    ELSE {[i \in DataPos |-> IF i \in S THEN switching.before[i] ELSE Load(mem, r, i)] :
             S \in SUBSET {i \in DataPos : switching.before[i] # Load(mem, r, i)}}

\* A record with the values a goroutine read.
SeenMem(r, seen) == Populate(ZeroMem, r, seen, 2)

\* What a read left behind: the values read and the state the switch was in.
Read(seen, text) == [seen |-> seen, during |-> switching, text |-> text]

\* c.Circle() or c.Rectangle() in the reading goroutine, which recovers a
\* panic and keeps the view it got to itself
ReadAs(c, To, seen) ==
    /\ running
    /\ LET res == GuardedCast(SeenMem(c.rec, seen), c, To) IN
        /\ last' = Outcome(GuardName(To), c.rec,
                           IF res.panic = NoPanic THEN "returned" ELSE "panicked",
                           res.panic,
                           IF res.view = Nil THEN NoView ELSE Held(res.view, c),
                           Read(seen, NoData), NoError, Value(mem, c.rec))
    /\ UNCHANGED <<mem, views, running, vcall, switching>>

\* json.Marshal(v) in the reading goroutine
Encode(v, seen) ==
    /\ running
    /\ last' = Outcome("Marshal", v.rec, "returned", NoPanic, v,
                       Read(seen, MarshalView(SeenMem(v.rec, seen), v)), NoError,
                       Value(mem, v.rec))
    /\ UNCHANGED <<mem, views, running, vcall, switching>>

NextConcurrent ==
    \/ \E t \in VariantTypes : \E lit \in Literals(t) : New(t, lit)
    \/ \E c \in Receivers : Shape(c)
    \/ \E c \in Receivers, To \in VariantTypes, recovers \in BOOLEAN : StoreKind(c, To, recovers)
    \/ ZeroStep
    \/ ReturnView
    \/ \E c \in Receivers, To \in VariantTypes : \E seen \in Seen(c.rec) : ReadAs(c, To, seen)
    \/ \E v \in views : \E seen \in Seen(v.rec) : Encode(v, seen)

SpecConcurrent == Init /\ [][NextConcurrent]_vars

-----------------------------------------------------------------------------
(* A second record beside the first: a copy by value, or one built apart    *)

\* cp := *v, and the receiver s of func (s Shape) MarshalJSON(): a struct
\* with the same pointers as the struct it is a copy of.
Copy(v) ==
    /\ running
    /\ v.rec = FirstRec
    /\ \A w \in views : w.rec # SecondRec
    /\ mem' = [mem EXCEPT !.recs[SecondRec] = mem.recs[FirstRec]]
    /\ views' = views \cup {[rec |-> SecondRec, typ |-> v.typ, origin |-> SecondRec]}
    /\ last' = Outcome("Copy", SecondRec, "returned", NoPanic, NoView, NoData, NoError, NotKept)
    /\ UNCHANGED <<running, vcall, switching>>

\* A second &T{Field: ptr(x), ...}: a record with pointers of its own.
NewApart(t, lit) ==
    /\ running
    /\ views # {}
    /\ \A w \in views : w.rec # SecondRec
    /\ mem' = Populate(mem, SecondRec, lit, 2)
    /\ views' = views \cup {[rec |-> SecondRec, typ |-> t.Name, origin |-> SecondRec]}
    /\ last' = Outcome("New", SecondRec, "returned", NoPanic, NoView, NoData, NoError, NotKept)
    /\ UNCHANGED <<running, vcall, switching>>

NextCopy ==
    \/ \E t \in VariantTypes : \E lit \in Literals(t) : New(t, lit)
    \/ \E v \in views : Copy(v)
    \/ \E t \in VariantTypes : \E lit \in Literals(t) : NewApart(t, lit)
    \/ \E c \in Receivers, recovers \in BOOLEAN : SetCircle(c, recovers)
    \/ \E c \in Receivers, recovers \in BOOLEAN : SetRectangle(c, recovers)

SpecCopy == Init /\ [][NextCopy]_vars

-----------------------------------------------------------------------------
(* Properties                                                               *)

GuardOps == {"Circle", "Rectangle"}
SwitchOps == {"SetCircle", "SetRectangle"}

\* The variant a call names.
VariantOf(op) == IF op \in {"Circle", "SetCircle"} THEN CircleShapeT ELSE RectangleShapeT

\* The variant that owns a variant-specific position.
Owner(i) == CHOOSE V \in VariantTypes : i \in Owned(V)

\* The stored discriminator of a record: Nil, or the cell with its tag.
Discriminator(m, r) == Load(m, r, KindPos)

\* The values of a record's fields, written out.
Fields(kind, color, radius, width, height) ==
    [i \in DataPos |->
        CASE i = ColorPos -> color [] i = KindPos -> kind [] i = RadiusPos -> radius
          [] i = WidthPos -> width [] i = HeightPos -> height]

\* The members of an encoded object, and their names.
Members(data) == {data[n] : n \in 1..Len(data)}
Keys(data) == {data[n][1] : n \in 1..Len(data)}
KeyOf(i) == shapeT.Fields[i].Tag[1]

\* C1: read-as-variant V returns a view of V if and only if the stored
\* discriminator is set and equals V's tag; when it is absent the call fails
\* with the message for a nil Kind, and when it is another tag X the call
\* fails with the message that carries X and V's tag.
C1_GuardCorrect ==
    last.op \in GuardOps =>
        LET V == VariantOf(last.op)
            d == Discriminator(mem, last.rec)
        IN  /\ last.status = "returned" <=> d = Cell(TagOf(V))
            /\ last.status = "returned" =>
                   /\ last.view \in views
                   /\ last.view.typ = V.Name
                   /\ last.view.rec = last.rec
            /\ d = Nil =>
                   /\ last.status = "panicked"
                   /\ last.panic = CantCast("nil", TagOf(V))
            /\ (d # Nil /\ d # Cell(TagOf(V))) =>
                   /\ last.status = "panicked"
                   /\ last.panic = CantCast(d[1], TagOf(V))

C1_Witness ==
    /\ last.op = "Rectangle"
    /\ last.status = "panicked"
    /\ Discriminator(mem, last.rec) = Cell(CircleShapeKind)
    /\ last.panic = CantCast(CircleShapeKind, RectangleShapeKind)

\* C2: a switch of a record that holds variant A's tag to variant B leaves
\* the discriminator at B's tag, every field A owns and B does not absent, and
\* the shared color field as it was.
C2_SwitchCorrect ==
    \A A \in VariantTypes :
        (/\ last.op \in SwitchOps
         /\ last.before[KindPos] = Cell(TagOf(A))) =>
            LET B == VariantOf(last.op) IN
            /\ last.status = "returned"
            /\ last.view.typ = B.Name
            /\ Discriminator(mem, last.rec) = Cell(TagOf(B))
            /\ \A i \in Owned(A) \ Owned(B) : Load(mem, last.rec, i) = Nil
            /\ \A i \in Shared \ {KindPos} : Load(mem, last.rec, i) = last.before[i]

C2_Witness ==
    /\ last.op = "SetRectangle"
    /\ last.status = "returned"
    /\ last.before = Fields(Cell(CircleShapeKind), Cell("red"), Cell(1), Nil, Nil)
    /\ Value(mem, last.rec) = Fields(Cell(RectangleShapeKind), Cell("red"), Nil, Nil, Nil)

\* C3: a switch to V clears exactly the fields V does not own and leaves
\* the fields V owns (but the discriminator, which it sets) as they were; a
\* switch to the variant the record holds keeps that variant's fields.
C3_ScrubsByTargetLayout ==
    (last.op \in SwitchOps /\ last.status = "returned") =>
        LET V == VariantOf(last.op) IN
        \A i \in DataPos \ {KindPos} :
            IF i \in Owned(V) THEN Load(mem, last.rec, i) = last.before[i]
            ELSE Load(mem, last.rec, i) = Nil

C3_Witness ==
    /\ last.op = "SetCircle"
    /\ last.status = "returned"
    /\ last.before = Fields(Cell(CircleShapeKind), Cell("red"), Cell(1), Nil, Nil)
    /\ Load(mem, last.rec, RadiusPos) = Nil

\* C4: every view refers to the storage of the view it was made from (no
\* call that returns a view copies the record), so all views of a record read
\* the same fields, and a value written through one is read through each.
C4_Aliasing ==
    /\ \A e \in views : e.rec = e.origin
    /\ (last.op \in {"Shape", "json"} \cup GuardOps \cup SwitchOps
           /\ last.status = "returned") => last.view.rec = last.rec
    /\ last.op \in {"Assign", "Store"} =>
           \A e \in views : e.origin = last.rec =>
               Load(mem, e.rec, last.data[1]) = last.data[2]

C4_Witness ==
    /\ last.op = "Store"
    /\ last.data = <<ColorPos, Cell("red")>>
    /\ {e.typ : e \in views} = {t.Name : t \in ViewTypes}
    /\ \A e \in views : Load(mem, e.rec, ColorPos) = Cell("red")

\* C5: a record made through a view of variant V with V's tag, encoded, and
\* the text decoded into a new record: the new record has V's tag, the values
\* of the first record at the positions V owns, and nothing elsewhere.
C5_RoundTrip ==
    last.op = "UnmarshalFresh" =>
        \A V \in VariantTypes :
            (/\ [rec |-> FirstRec, typ |-> V.Name, origin |-> FirstRec] \in views
             /\ Discriminator(mem, FirstRec) = Cell(TagOf(V))) =>
                /\ last.err = NoError
                /\ Discriminator(mem, SecondRec) = Cell(TagOf(V))
                /\ \A i \in Owned(V) : Load(mem, SecondRec, i) = Load(mem, FirstRec, i)
                /\ \A i \in DataPos \ Owned(V) : Load(mem, SecondRec, i) = Nil

C5_Witness ==
    /\ last.op = "UnmarshalFresh"
    /\ [rec |-> FirstRec, typ |-> CircleShapeT.Name, origin |-> FirstRec] \in views
    /\ Value(mem, FirstRec) = Fields(Cell(CircleShapeKind), Cell(""), Cell(1), Nil, Nil)
    /\ Value(mem, SecondRec) = Fields(Cell(CircleShapeKind), Nil, Cell(1), Nil, Nil)

\* The canonical type's first field is a caster: a type whose underlying
\* type is that of Caster[Json].
IsMarker(jsonT) ==
    /\ NumField(jsonT) >= 1
    /\ Underlying(jsonT.Fields[1].Type) = Underlying(CasterType(jsonT))

\* A struct with the canonical type's number of fields and, at every
\* position, its field type.
SameLayout(jsonT, s) ==
    /\ s.Kind = "struct"
    /\ NumField(s) = NumField(jsonT)
    /\ \A f \in 1..NumField(jsonT) : s.Fields[f].Type = jsonT.Fields[f].Type

Succeeded == vcall.done /\ vcall.res.status = "returned" /\ vcall.res.err = NoError

\* C6: the validator succeeds if and only if the canonical type's first
\* field is a caster and every struct given has the canonical type's number
\* of fields and its field type at every position; names and accessibility
\* of the fields do not matter.
C6_ValidatorIff ==
    vcall.done =>
        (Succeeded <=>
            /\ IsMarker(vcall.Json)
            /\ \A n \in 1..Len(vcall.structs) : SameLayout(vcall.Json, vcall.structs[n]))

C6_Witness ==
    /\ Succeeded
    /\ vcall.Json = shapeT
    /\ vcall.structs = <<HiddenShapeT, CircleShapeT>>

Offending == {n \in 1..Len(vcall.structs) : ~SameLayout(vcall.Json, vcall.structs[n])}
FirstOffending == CHOOSE n \in Offending : \A k \in Offending : n <= k

\* What a failed validation hands to its caller: the error it returns, or
\* with panicOnError the value it panics with.
Failure == IF vcall.panicOnError THEN vcall.res.panic ELSE vcall.res.err

\* C7: when a struct given does not have the canonical layout, the failure
\* names the first such struct in argument order; when its number of fields
\* differs the failure carries the two counts, and otherwise it carries the
\* lowest index (counted from 0) at which the field types differ, the two
\* fields' names and the two types.
C7_FailureNamesFirstMismatch ==
    (/\ vcall.done
     /\ IsMarker(vcall.Json)
     /\ Offending # {}
     /\ vcall.structs[FirstOffending].Kind = "struct") =>
        LET main == vcall.Json
            other == vcall.structs[FirstOffending]
            Differ == {f \in 1..NumField(main) : main.Fields[f].Type # other.Fields[f].Type}
        IN  /\ vcall.res.status = IF vcall.panicOnError THEN "panicked" ELSE "returned"
            /\ IF NumField(main) # NumField(other)
               THEN Failure = <<"structs have different number of fields: %s=%d vs %s=%d",
                                main.Name, NumField(main), other.Name, NumField(other)>>
               ELSE LET f == CHOOSE g \in Differ : \A h \in Differ : g <= h IN
                    Failure = <<"structs have incompatible field #%d: %s.%s (%s) vs %s.%s (%s)",
                                f - 1, main.Name, main.Fields[f].Name, main.Fields[f].Type,
                                other.Name, other.Fields[f].Name, other.Fields[f].Type>>

C7_Witness ==
    /\ vcall.done
    /\ ~vcall.panicOnError
    /\ vcall.Json = shapeT
    /\ vcall.structs = <<CircleShapeT, SwappedShapeT>>
    /\ vcall.res.err = <<"structs have incompatible field #%d: %s.%s (%s) vs %s.%s (%s)",
                         1, "shape", "Color", "*string", "SwappedShape", "Kind", "*ShapeKind">>

EmptyRecord == Fields(Nil, Nil, Nil, Nil, Nil)
RedCircle == Fields(Cell(CircleShapeKind), Cell("red"), Cell(1), Nil, Nil)
RedRectangle == Fields(Cell(RectangleShapeKind), Cell("red"), Nil, Nil, Nil)
RectangleText ==
    {Member("kind", JString(RectangleShapeKind)), Member("color", JString("red")),
     Member("width", JNumber(10)), Member("height", JNumber(20))}

\* C8: decoding the text of a red circle of radius 1 into an empty record
\* gives circle, red, 1 and no width or height; a switch of that record to
\* rectangle gives rectangle, red and no radius, width or height; writing a
\* width and a height writes those fields and no other; and encoding
\* rectangle, red, width 10, height 20 gives an object with exactly the
\* members kind, color, width and height, with those values.
C8_Scenario ==
    [][LET r == last'.rec IN
       /\ (/\ last'.op = "Unmarshal"
           /\ last'.data = CircleText
           /\ Value(mem, r) = EmptyRecord) =>
              /\ last'.err = NoError
              /\ Value(mem', r) = RedCircle
       /\ (/\ last'.op = "SetRectangle"
           /\ Value(mem, r) = RedCircle) =>
              /\ last'.status = "returned"
              /\ last'.view.typ = RectangleShapeT.Name
              /\ Value(mem', r) = RedRectangle
       /\ (/\ last'.op = "Assign"
           /\ last'.data[1] \in {WidthPos, HeightPos}) =>
              Value(mem', r) = [Value(mem, r) EXCEPT ![last'.data[1]] = last'.data[2]]
       /\ (/\ last'.op = "Marshal"
           /\ Value(mem, r) = [RedRectangle EXCEPT ![WidthPos] = Cell(10),
                                                   ![HeightPos] = Cell(20)]) =>
              /\ Members(last'.data) = RectangleText
              /\ Len(last'.data) = Cardinality(RectangleText)
              /\ KeyOf(RadiusPos) \notin Keys(last'.data)]_vars

C8_Witness ==
    /\ last.op = "Marshal"
    /\ last.view.typ = RectangleShapeT.Name
    /\ Value(mem, last.rec) = Fields(Cell(RectangleShapeKind), Cell("red"), Nil,
                                     Cell(10), Cell(20))
    /\ Members(last.data) = RectangleText
    /\ Len(last.data) = 4

\* C9 as claimed: encoding emits the key of a variant-specific field only
\* if the variant that owns the field is the record's discriminator and the
\* field holds a value.
C9_EmitsOnlyCurrentVariant ==
    last.op = "Marshal" =>
        \A i \in Specific :
            KeyOf(i) \in Keys(last.data) =>
                /\ Discriminator(mem, last.rec) = Cell(TagOf(Owner(i)))
                /\ Load(mem, last.rec, i) # Nil

\* C9 as the code has it: encoding emits the key of a variant-specific field
\* if and only if the field holds a value, whatever the discriminator, and
\* with the value the field holds (never null); and the record a switch has
\* just returned holds no variant-specific field, so its encoding has none.
C9_EmitsWhatIsStored ==
    /\ last.op = "Marshal" =>
           \A i \in Specific :
               /\ KeyOf(i) \in Keys(last.data) <=> Load(mem, last.rec, i) # Nil
               /\ \A mb \in Members(last.data) :
                      mb[1] = KeyOf(i) => mb[2] = JNumber(Load(mem, last.rec, i)[1])
    /\ (last.op \in SwitchOps /\ last.status = "returned") =>
           Keys(MarshalJSON(mem, caster(last.view))) \cap {KeyOf(i) : i \in Specific} = {}

C9_Witness ==
    /\ last.op = "Marshal"
    /\ Discriminator(mem, last.rec) = Cell(CircleShapeKind)
    /\ Load(mem, last.rec, RadiusPos) = Nil
    /\ Keys(last.data) = {KeyOf(KindPos), KeyOf(WidthPos)}

\* C10 as claimed: a guard that fails hands its caller an error value: the
\* call returns and the process goes on.
C10_GuardFailureIsErrorValue ==
    (/\ last.op \in GuardOps
     /\ last.before[KindPos] # Cell(TagOf(VariantOf(last.op)))) =>
        /\ last.status = "returned"
        /\ last.err # NoError
        /\ running

\* C10 as the code has it: a guard that fails panics: the call returns
\* neither a view nor an error value, the record and the views held are as
\* they were, and the process ends unless the caller recovers the panic.
C10_GuardFailureIsPanic ==
    (/\ last.op \in GuardOps
     /\ last.before[KindPos] # Cell(TagOf(VariantOf(last.op)))) =>
        /\ last.status = "panicked"
        /\ last.panic # NoPanic
        /\ last.err = NoError
        /\ last.view = NoView
        /\ Value(mem, last.rec) = last.before

C10_Witness ==
    /\ last.op = "Circle"
    /\ last.status = "panicked"
    /\ last.before[KindPos] = Cell(RectangleShapeKind)
    /\ ~running

\* C11: a switch made on a record whose discriminator was never set
\* completes: it returns a view of the target variant, the discriminator is
\* the target's tag and the fields the target does not own are absent.
C11_SwitchOnAbsentKind ==
    (/\ last.op \in SwitchOps
     /\ last.before[KindPos] = Nil) =>
        LET V == VariantOf(last.op) IN
        /\ last.status = "returned"
        /\ last.view.typ = V.Name
        /\ Discriminator(mem, last.rec) = Cell(TagOf(V))
        /\ \A i \in DataPos \ Owned(V) : Load(mem, last.rec, i) = Nil

C11_Witness ==
    /\ last.op = "SetCircle"
    /\ last.before = Fields(Nil, Cell("red"), Cell(1), Nil, Nil)
    /\ last.status = "panicked"
    /\ last.panic = NilDereference
    /\ Value(mem, last.rec) = last.before

\* The other variant.
Other(V) == CHOOSE W \in VariantTypes : W # V

\* C12: for variants A and B: a switch of a record that holds A to B leaves
\* A's own fields absent and the shared field as it was; assigning a field of
\* B then changes that field only; and a switch back to A of a record that
\* holds B, with B's fields set and A's own absent, leaves B's fields absent,
\* A's own fields absent (not the values they had at first) and the shared
\* field as it was.
C12_SwitchBack ==
    [][\A A \in VariantTypes :
        LET B == Other(A)
            r == last'.rec
            OwnA == Owned(A) \ Shared
            OwnB == Owned(B) \ Shared
        IN  /\ (/\ last'.op \in SwitchOps
                /\ VariantOf(last'.op) = B
                /\ Discriminator(mem, r) = Cell(TagOf(A))) =>
                   /\ last'.status = "returned"
                   /\ Discriminator(mem', r) = Cell(TagOf(B))
                   /\ \A i \in OwnA : Load(mem', r, i) = Nil
                   /\ Load(mem', r, ColorPos) = Load(mem, r, ColorPos)
            /\ (/\ last'.op = "Assign"
                /\ last'.data[1] \in OwnB) =>
                   /\ Load(mem', r, last'.data[1]) = last'.data[2]
                   /\ \A i \in DataPos \ {last'.data[1]} : Load(mem', r, i) = Load(mem, r, i)
            /\ (/\ last'.op \in SwitchOps
                /\ VariantOf(last'.op) = A
                /\ Discriminator(mem, r) = Cell(TagOf(B))
                /\ \A i \in OwnA : Load(mem, r, i) = Nil) =>
                   /\ last'.status = "returned"
                   /\ Discriminator(mem', r) = Cell(TagOf(A))
                   /\ \A i \in OwnB \cup OwnA : Load(mem', r, i) = Nil
                   /\ Load(mem', r, ColorPos) = Load(mem, r, ColorPos)]_vars

C12_Witness ==
    /\ last.op = "SetCircle"
    /\ last.status = "returned"
    /\ [rec |-> last.rec, typ |-> CircleShapeT.Name, origin |-> last.rec] \in views
    /\ [rec |-> last.rec, typ |-> RectangleShapeT.Name, origin |-> last.rec] \in views
    /\ last.before = Fields(Cell(RectangleShapeKind), Cell("red"), Nil, Cell(10), Cell(20))
    /\ Value(mem, last.rec) = Fields(Cell(CircleShapeKind), Cell("red"), Nil, Nil, Nil)

\* The canonical type and every struct given have the layout the validator
\* asks for.
LayoutValid ==
    /\ IsMarker(vcall.Json)
    /\ \A n \in 1..Len(vcall.structs) : SameLayout(vcall.Json, vcall.structs[n])

\* C13: with panicOnError the validator panics exactly when validation
\* fails and returns nil when it succeeds; without it the validator never
\* panics: it returns the failure as an error, or nil when there is none.
C13_PolicyFollowed ==
    vcall.done =>
        IF vcall.panicOnError
        THEN /\ vcall.res.status = "panicked" <=> ~LayoutValid
             /\ LayoutValid => (vcall.res.status = "returned" /\ vcall.res.err = NoError)
        ELSE /\ vcall.res.status = "returned"
             /\ vcall.res.panic = NoPanic
             /\ vcall.res.err = NoError <=> LayoutValid

C13_Witness ==
    /\ vcall.done
    /\ ~vcall.panicOnError
    /\ vcall.Json = shapeT
    /\ vcall.structs = <<CircleShapeT, PtrShapeT>>
    /\ vcall.res.status = "panicked"
    /\ vcall.res.panic = ReflectPanic("NumField of non-struct type")
    /\ ~running

KnownKinds == {CircleShapeKind, RectangleShapeKind}

\* C14: decoding a text with a kind the program does not know and a key it
\* does not know returns no error: the kind and the color are stored as
\* given and the unknown key changes nothing; the client's switch over the
\* kinds it knows then takes its default branch, with no panic and no cast;
\* and the canonical view and the common view, which a record of any kind
\* gives, both give access to the color.
C14_UnknownKindAndKeys ==
    /\ (last.op = "Unmarshal" /\ last.data = TriangleText) =>
           /\ last.err = NoError
           /\ Discriminator(mem, last.rec) = Cell("triangle")
           /\ Load(mem, last.rec, ColorPos) = Cell("red")
           /\ \A i \in Specific : Load(mem, last.rec, i) = last.before[i]
    /\ (/\ last.op = "SwitchOnKind"
        /\ last.before[KindPos] # Nil
        /\ last.before[KindPos] \notin {Cell(k) : k \in KnownKinds}) =>
           /\ last.status = "returned"
           /\ last.panic = NoPanic
           /\ last.view = NoView
           /\ Value(mem, last.rec) = last.before
    /\ last.op \in {"Shape", "json"} =>
           /\ last.status = "returned"
           /\ last.view \in views
           /\ last.view.rec = last.rec
           /\ ColorPos \in Owned(TypeOf(last.view))
           /\ Load(mem, last.view.rec, ColorPos) = last.before[ColorPos]

C14_Witness ==
    /\ last.op = "SwitchOnKind"
    /\ last.status = "returned"
    /\ last.view = NoView
    /\ Value(mem, last.rec) = Fields(Cell("triangle"), Cell("red"), Nil, Nil, Nil)
    /\ {ShapeT.Name, shapeT.Name} \subseteq {e.typ : e \in views}

\* C15: the text json.Marshal gives through a view is the encoding of the
\* canonical struct, the same through every view held of the record, and it
\* has the fields the view used does not export.
C15_UniformWire ==
    last.op = "Marshal" =>
        /\ last.data = MarshalFrom(mem, mem.recs[last.rec], 1)
        /\ \A e \in views : e.rec = last.rec => MarshalView(mem, e) = last.data
        /\ \A i \in DataPos \ Owned(TypeOf(last.view)) :
               Load(mem, last.rec, i) # Nil => KeyOf(i) \in Keys(last.data)

C15_Witness ==
    /\ last.op = "Marshal"
    /\ last.view.typ = ShapeT.Name
    /\ {shapeT.Name, CircleShapeT.Name} \subseteq {e.typ : e \in views}
    /\ Value(mem, last.rec) = Fields(Cell(CircleShapeKind), Cell("red"), Cell(1), Nil, Nil)
    /\ last.data = <<Member("color", JString("red")), Member("kind", JString(CircleShapeKind)),
                     Member("radius", JNumber(1))>>

\* The data positions in the order the canonical struct declares them, and
\* the names of an encoded object's members in the order of the text.
DeclaredOrder == [n \in 1..Cardinality(DataPos) |-> n + 1]
KeySeq(data) == [n \in 1..Len(data) |-> data[n][1]]

\* C16: encoding emits one key for each field of the canonical struct that
\* is not absent and none for an absent field, in the order the struct
\* declares the fields: color, kind, radius, width, height.
C16_KeysOfPresentFieldsInOrder ==
    last.op = "Marshal" =>
        LET present == SelectSeq(DeclaredOrder, LAMBDA i : Load(mem, last.rec, i) # Nil)
        IN  KeySeq(last.data) = [n \in 1..Len(present) |-> KeyOf(present[n])]

C16_Witness ==
    /\ last.op = "Marshal"
    /\ Value(mem, last.rec) = Fields(Cell(CircleShapeKind), Cell(""), Cell(1), Nil, Nil)
    /\ KeySeq(last.data) = <<"kind", "radius">>

\* C17: a decode that fails returns an error and leaves the record as it
\* was before the call: no field and no discriminator has changed.
C17_FailedDecodeChangesNothing ==
    (last.op = "Unmarshal" /\ last.err # NoError) =>
        /\ last.status = "returned"
        /\ last.panic = NoPanic
        /\ Value(mem, last.rec) = last.before

C17_Witness ==
    /\ last.op = "Unmarshal"
    /\ last.data = <<Member("kind", JString(CircleShapeKind)), Member("radius", JString("big"))>>
    /\ last.err = SemanticError("radius")
    /\ last.before = Fields(Cell(RectangleShapeKind), Cell("red"), Nil, Cell(10), Cell(20))
    /\ Value(mem, last.rec) = Fields(Cell(CircleShapeKind), Cell("red"), Nil, Cell(10), Cell(20))

\* C18: a decode stores every recognized member of the text as given and
\* clears nothing: after a decode without error each field whose key is in
\* the text holds the text's value (nil for null), whatever the discriminator
\* says, and after any decode a field whose key is not in the text holds the
\* value it held before.
C18_DecodeNeverScrubs ==
    last.op = "Unmarshal" =>
        \A i \in DataPos :
            IF KeyOf(i) \in Keys(last.data)
            THEN last.err = NoError =>
                     \A n \in 1..Len(last.data) :
                         last.data[n][1] = KeyOf(i) =>
                             Load(mem, last.rec, i) =
                                 IF last.data[n][2].t = "null" THEN Nil
                                 ELSE Cell(last.data[n][2].v)
            ELSE Load(mem, last.rec, i) = last.before[i]

C18_Witness ==
    /\ last.op = "Unmarshal"
    /\ last.data = CircleWidthText
    /\ last.err = NoError
    /\ last.before = Fields(Cell(RectangleShapeKind), Cell("red"), Nil, Cell(10), Cell(20))
    /\ Value(mem, last.rec) = Fields(Cell(CircleShapeKind), Cell("red"), Nil, Cell(10), Cell(20))

\* C19: a switch writes the new discriminator first and clears the fields
\* afterwards, one position at a time, with no lock: between its steps the
\* record holds the new tag, nil at the positions already cleared and the
\* old values at the positions still to come.  A goroutine that reads then
\* sees, at each position, the value in memory or the one from before the
\* switch; a read-as-variant that reads the new tag returns its view, and
\* an encoding of the record as it is in memory carries the new tag and the
\* fields not yet cleared.
C19_SwitchIsTorn ==
    /\ switching.pc = "scrub" =>
           LET r == switching.c.rec IN
           /\ Discriminator(mem, r) = Cell(TagOf(switching.to))
           /\ \A i \in DataPos \ {KindPos} :
                  Load(mem, r, i) = IF i \in Specific /\ i < switching.f THEN Nil
                                    ELSE switching.before[i]
    /\ (last.op \in GuardOps \cup {"Marshal"} /\ last.data.during.pc = "scrub") =>
           LET seen == last.data.seen
               during == last.data.during
           IN  /\ \A i \in DataPos : seen[i] \in {during.before[i], last.before[i]}
               /\ last.op \in GuardOps =>
                      /\ last.status = "returned" <=>
                             seen[KindPos] = Cell(TagOf(VariantOf(last.op)))
                      /\ (seen = last.before /\ VariantOf(last.op) = during.to) =>
                             /\ last.status = "returned"
                             /\ last.view.typ = during.to.Name
                             /\ last.view.rec = during.c.rec
               /\ (last.op = "Marshal" /\ seen = last.before) =>
                      /\ Member("kind", JString(TagOf(during.to))) \in Members(last.data.text)
                      /\ \A i \in Specific :
                             (i >= during.f /\ during.before[i] # Nil) =>
                                 KeyOf(i) \in Keys(last.data.text)

C19_Witness ==
    /\ last.op = "Circle"
    /\ last.status = "returned"
    /\ last.view.typ = CircleShapeT.Name
    /\ last.data.during.pc = "scrub"
    /\ last.data.during.to = CircleShapeT
    /\ last.data.during.before =
           Fields(Cell(RectangleShapeKind), Cell("red"), Nil, Cell(10), Cell(20))
    /\ last.data.seen = Fields(Cell(CircleShapeKind), Cell("red"), Nil, Cell(10), Cell(20))
    /\ last.before = last.data.seen
    /\ switching = last.data.during

\* C20: a switch called on a record changes that record only: every other
\* record, a copy by value taken before the switch included, reads the same
\* discriminator and the same fields after the switch as before it.
C20_SwitchChangesOnlyItsRecord ==
    [][\A c \in Receivers, recovers \in BOOLEAN :
           (SetCircle(c, recovers) \/ SetRectangle(c, recovers)) =>
               \A r \in RecIds \ {c.rec} : Value(mem', r) = Value(mem, r)]_vars

C20_Witness ==
    /\ last.op = "SetCircle"
    /\ last.rec = FirstRec
    /\ last.status = "returned"
    /\ last.before = Fields(Cell(RectangleShapeKind), Cell("red"), Nil, Cell(10), Cell(20))
    /\ mem.recs[SecondRec][KindPos] = mem.recs[FirstRec][KindPos]
    /\ Value(mem, FirstRec) = Fields(Cell(CircleShapeKind), Cell("red"), Nil, Nil, Nil)
    /\ Value(mem, SecondRec) = Fields(Cell(CircleShapeKind), Cell("red"), Nil, Cell(10), Cell(20))

=============================================================================
